---- MODULE Spec2Model ----
(***************************************************************************)
(* Model of the parking-lot allocation core: the in-memory repository      *)
(* (internal/repository/parking_repository.go) and the service that        *)
(* orchestrates it (package parking).  Every repository method runs under  *)
(* the repository's RWMutex and is one atomic step; a service method is a  *)
(* sequence of repository calls and therefore a sequence of steps that     *)
(* other callers can interleave with.                                      *)
(***************************************************************************)
EXTENDS Integers, Sequences, FiniteSets, TLC

(***************************************************************************)
(* Bounds of the model.                                                    *)
(***************************************************************************)
\* largest in-range column count offered to InitializeParkingLot
MaxColsIn == 2
\* number of service calls the callers make in one run
MaxCalls == 5
\* number of calls the single caller of the two-by-two-by-two lots makes
MaxGridCalls == 4
\* number of service calls made in a run in which the lock is a state of its own
MaxLockCalls == 3

\* the concurrent callers of the service
Procs == {1, 2}

(***************************************************************************)
(* Program constants.                                                      *)
(***************************************************************************)
Bicycle == "Bicycle"
Motorcycle == "Motorcycle"
Automobile == "Automobile"

ErrInvalidLocation == "invalid parking spot location: index out of bounds"
ErrInvalidSpotID == "invalid spot ID format: must be floor-row-column"
ErrInvalidSpotType == "invalid spot type: must be B-1, M-1, A-1, or X-0"
ErrInvalidVehicleType == "invalid vehicle type: must be Bicycle, Motorcycle, or Automobile"
ErrVehicleAlreadyParked == "vehicle is already parked"
ErrVehicleNotParked == "vehicle is not currently parked"
ErrVehicleNotAtSpot == "vehicle is not parked at the specified spot"
ErrNoAvailableSpot == "no available parking spot for the specified vehicle type"
\* messages that the service builds inline
ErrEmptyVehicleNumber == "vehicle number cannot be empty"
ErrOccupiedReconfigure == "cannot reconfigure an occupied parking spot"
ErrFloorsRange == "floors must be between 1 and 8"
ErrRowsRange == "rows must be between 1 and 1000"
ErrColumnsRange == "columns must be between 1 and 1000"
ErrGatesRange == "gates must be at least 1"
ErrNeverParked == "vehicle has never been parked in this parking lot"

\* limits of ParkingService.InitializeParkingLot
MaxFloors == 8
MaxRows == 1000
MaxColumns == 1000

(***************************************************************************)
(* Inputs offered by the callers.                                          *)
(***************************************************************************)
\* vehicle numbers, the empty one included
VehicleNumbers == {"", "BC1", "BC2"}
\* the vehicle numbers of the single caller's runs
SeqVehicleNumbers == {"", "BC1", "BC2", "BC3"}
AllVehicleNumbers == VehicleNumbers \cup SeqVehicleNumbers
\* vehicle types, one unknown kind included
VehicleTypes == {Bicycle, "Truck"}
\* spot type codes, one unknown code included
SpotTypeCodes == {"B-1", "M-1", "X-0", "Z-9"}
FloorInputs == {0, 1, MaxFloors + 1}
RowInputs == {1, MaxRows + 1}
ColumnInputs == {0, MaxColsIn, MaxColumns + 1}
GateInputs == {0, 1}

(***************************************************************************)
(* Strings that are formatted and parsed are sequences of characters.      *)
(***************************************************************************)
DigitChars == <<"0", "1", "2", "3", "4", "5", "6", "7", "8", "9">>

IsDigit(ch) == \E i \in 1..10 : DigitChars[i] = ch

DigitValue(ch) == (CHOOSE i \in 1..10 : DigitChars[i] = ch) - 1

\* fmt's %d of a non-negative integer
RECURSIVE FormatNat(_)
FormatNat(n) ==
    IF n < 10 THEN <<DigitChars[n + 1]>>
    ELSE FormatNat(n \div 10) \o <<DigitChars[(n % 10) + 1]>>

\* fmt's %d
FormatInt(n) == IF n < 0 THEN <<"-">> \o FormatNat(0 - n) ELSE FormatNat(n)

\* fmt.Sprintf("%d-%d-%d", f, row, col)
SprintfSpotID(f, row, col) ==
    FormatInt(f) \o <<"-">> \o FormatInt(row) \o <<"-">> \o FormatInt(col)

\* the first position at or after i that holds no space
RECURSIVE SkipSpace(_, _)
SkipSpace(s, i) ==
    IF i <= Len(s) /\ s[i] = " " THEN SkipSpace(s, i + 1) ELSE i

\* the first position at or after i that holds no digit
RECURSIVE SkipDigits(_, _)
SkipDigits(s, i) ==
    IF i <= Len(s) /\ IsDigit(s[i]) THEN SkipDigits(s, i + 1) ELSE i

\* the decimal value of the digits s[i..j-1], acc being the value so far
RECURSIVE DigitsValue(_, _, _, _)
DigitsValue(s, i, j, acc) ==
    IF i >= j THEN acc ELSE DigitsValue(s, i + 1, j, acc * 10 + DigitValue(s[i]))

\* one %d verb of fmt.Sscanf, its sign and digits located: the digits are
\* s[b..e-1], negated when neg
ScanIntToken(s, b, e, neg) ==
    IF e = b THEN [ok |-> FALSE, val |-> 0, next |-> b]
    ELSE [ok |-> TRUE,
          val |-> IF neg THEN 0 - DigitsValue(s, b, e, 0) ELSE DigitsValue(s, b, e, 0),
          next |-> e]

\* one %d verb of fmt.Sscanf read at a, the leading spaces skipped: an
\* optional sign, then at least one digit
ScanIntSigned(s, a) ==
    IF a <= Len(s) /\ s[a] \in {"+", "-"}
    THEN ScanIntToken(s, a + 1, SkipDigits(s, a + 1), s[a] = "-")
    ELSE ScanIntToken(s, a, SkipDigits(s, a), FALSE)

\* one %d verb of fmt.Sscanf read at position i
ScanInt(s, i) == ScanIntSigned(s, SkipSpace(s, i))

\* a scanned number followed by the literal "-" of the format
ScanDash(s, n) == n.ok /\ n.next <= Len(s) /\ s[n.next] = "-"

SscanfFailed == [ok |-> FALSE, floor |-> 0, row |-> 0, column |-> 0]

\* fmt.Sscanf(spotID, "%d-%d-%d", ...) once the three verbs have been read;
\* input left over after the third number is not an error
SscanfResult(s, n1, n2, n3) ==
    IF n3.ok THEN [ok |-> TRUE, floor |-> n1.val, row |-> n2.val, column |-> n3.val]
    ELSE SscanfFailed

\* the %d verb read after the "-" that follows the number n; the position is
\* bound as a value, so that it is computed once
ScanIntAfter(s, n) == CHOOSE m \in {ScanInt(s, i) : i \in {n.next + 1}} : TRUE

SscanfThird(s, n1, n2) ==
    IF ScanDash(s, n2) THEN SscanfResult(s, n1, n2, ScanIntAfter(s, n2))
    ELSE SscanfFailed

SscanfSecond(s, n1) ==
    IF ScanDash(s, n1) THEN SscanfThird(s, n1, ScanIntAfter(s, n1))
    ELSE SscanfFailed

\* fmt.Sscanf(spotID, "%d-%d-%d", &floor, &row, &column)
SscanfSpotID(s) == SscanfSecond(s, ScanInt(s, 1))

(***************************************************************************)
(* State.                                                                  *)
(***************************************************************************)
VARIABLES
    floors, rows, columns, gates,  \* InMemoryParkingRepository dimensions
    spots,           \* <<floor, row, column>> -> ParkingSpot
    vehicleMap,      \* vehicleNumber -> current spotID
    vehicleHistory,  \* vehicleNumber -> last spotID
    pc,              \* per caller: the repository call it makes next
    call,            \* per caller: arguments and locals of the call it is in
    ret,             \* the call that returned in the latest step, if one did
    ncalls,          \* service calls begun so far
    parkedSince      \* per vehicle: successful Parks since its last successful Unpark

repo == <<floors, rows, columns, gates, spots, vehicleMap, vehicleHistory>>
vars == <<floors, rows, columns, gates, spots, vehicleMap, vehicleHistory,
          pc, call, ret, ncalls, parkedSince>>

\* Go maps
EmptyMap == [k \in {} |-> <<>>]
MapPut(m, k, v) == [x \in (DOMAIN m) \cup {k} |-> IF x = k THEN v ELSE m[x]]
MapDelete(m, k) == [x \in (DOMAIN m) \ {k} |-> m[x]]

\* a ParkingSpot allocated as an active one
NewParkingSpotActive ==
    [VehicleType |-> "", IsActive |-> TRUE, IsOccupied |-> FALSE, VehicleNumber |-> ""]

\* the value of a ParkingSpot that InitializeParkingLot allocates
NewParkingSpot ==
    [VehicleType |-> "", IsActive |-> FALSE, IsOccupied |-> FALSE, VehicleNumber |-> ""]

\* the F x R x C grid that InitializeParkingLot allocates
NewSpots(F, R, C) ==
    [loc \in (0..(F - 1)) \X (0..(R - 1)) \X (0..(C - 1)) |-> NewParkingSpot]

(***************************************************************************)
(* Repository methods.  Readers are operators on the current state;        *)
(* writers yield their error and the fields they leave behind.             *)
(***************************************************************************)
isValidLocation(floor, row, column) ==
    /\ floor >= 0 /\ floor < floors
    /\ row >= 0 /\ row < rows
    /\ column >= 0 /\ column < columns

IsValidLocation(floor, row, column) == isValidLocation(floor, row, column)

IsSpotOccupied(floor, row, column) ==
    IF ~isValidLocation(floor, row, column)
    THEN [occupied |-> FALSE, err |-> ErrInvalidLocation]
    ELSE [occupied |-> spots[<<floor, row, column>>].IsOccupied, err |-> ""]

\* the condition both scans test on a spot
SpotAvailable(spot, vehicleType) ==
    spot.IsActive /\ spot.VehicleType = vehicleType /\ ~spot.IsOccupied

\* the scan of FindAvailableSpot with the columns as the outermost loop and the
\* floors as the innermost
RECURSIVE FindFromColumnsOutermost(_, _, _, _)
FindFromColumnsOutermost(vehicleType, f, row, col) ==
    IF col >= columns THEN [spotID |-> <<>>, err |-> ErrNoAvailableSpot]
    ELSE IF row >= rows THEN FindFromColumnsOutermost(vehicleType, 0, 0, col + 1)
    ELSE IF f >= floors THEN FindFromColumnsOutermost(vehicleType, 0, row + 1, col)
    ELSE IF SpotAvailable(spots[<<f, row, col>>], vehicleType)
         THEN [spotID |-> SprintfSpotID(f, row, col), err |-> ""]
         ELSE FindFromColumnsOutermost(vehicleType, f + 1, row, col)

\* the nested loops of FindAvailableSpot, resumed at (f, row, col)
RECURSIVE FindFrom(_, _, _, _)
FindFrom(vehicleType, f, row, col) ==
    IF f >= floors THEN [spotID |-> <<>>, err |-> ErrNoAvailableSpot]
    ELSE IF row >= rows THEN FindFrom(vehicleType, f + 1, 0, 0)
    ELSE IF col >= columns THEN FindFrom(vehicleType, f, row + 1, 0)
    ELSE IF SpotAvailable(spots[<<f, row, col>>], vehicleType)
         THEN [spotID |-> SprintfSpotID(f, row, col), err |-> ""]
         ELSE FindFrom(vehicleType, f, row, col + 1)

FindAvailableSpot(vehicleType) == FindFrom(vehicleType, 0, 0, 0)

\* the scan of GetAvailableSpots putting each spot before the ones found so far
RECURSIVE CollectFromPrepending(_, _, _, _, _)
CollectFromPrepending(vehicleType, f, row, col, availableSpots) ==
    IF f >= floors THEN availableSpots
    ELSE IF row >= rows THEN CollectFromPrepending(vehicleType, f + 1, 0, 0, availableSpots)
    ELSE IF col >= columns THEN CollectFromPrepending(vehicleType, f, row + 1, 0, availableSpots)
    ELSE IF SpotAvailable(spots[<<f, row, col>>], vehicleType)
         THEN CollectFromPrepending(vehicleType, f, row, col + 1,
                                    <<SprintfSpotID(f, row, col)>> \o availableSpots)
         ELSE CollectFromPrepending(vehicleType, f, row, col + 1, availableSpots)

\* the nested loops of GetAvailableSpots, resumed at (f, row, col) with the
\* spots appended so far
RECURSIVE CollectFrom(_, _, _, _, _)
CollectFrom(vehicleType, f, row, col, availableSpots) ==
    IF f >= floors THEN availableSpots
    ELSE IF row >= rows THEN CollectFrom(vehicleType, f + 1, 0, 0, availableSpots)
    ELSE IF col >= columns THEN CollectFrom(vehicleType, f, row + 1, 0, availableSpots)
    ELSE IF SpotAvailable(spots[<<f, row, col>>], vehicleType)
         THEN CollectFrom(vehicleType, f, row, col + 1,
                          Append(availableSpots, SprintfSpotID(f, row, col)))
         ELSE CollectFrom(vehicleType, f, row, col + 1, availableSpots)

\* the error of the repository wraps ErrNoAvailableSpot with the vehicle type;
\* errors are modelled by their kind
GetAvailableSpots(vehicleType) ==
    IF Len(CollectFrom(vehicleType, 0, 0, 0, <<>>)) = 0
    THEN [spotIDs |-> <<>>, err |-> ErrNoAvailableSpot]
    ELSE [spotIDs |-> CollectFrom(vehicleType, 0, 0, 0, <<>>), err |-> ""]

parseSpotID(spotID) ==
    LET sc == SscanfSpotID(spotID)
        bad(e) == [floor |-> 0, row |-> 0, column |-> 0, err |-> e]
    IN  IF ~sc.ok THEN bad(ErrInvalidSpotID)
        ELSE IF ~isValidLocation(sc.floor, sc.row, sc.column) THEN bad(ErrInvalidLocation)
        ELSE [floor |-> sc.floor, row |-> sc.row, column |-> sc.column, err |-> ""]

ParseSpotID(spotID) == parseSpotID(spotID)

\* IsVehicleParked looking the vehicle up in the history instead
IsVehicleParkedReadsHistory(vehicleNumber) ==
    IF vehicleNumber \in DOMAIN vehicleHistory
    THEN [exists |-> TRUE, spotID |-> vehicleHistory[vehicleNumber]]
    ELSE [exists |-> FALSE, spotID |-> <<>>]

IsVehicleParked(vehicleNumber) ==
    IF vehicleNumber \in DOMAIN vehicleMap
    THEN [exists |-> TRUE, spotID |-> vehicleMap[vehicleNumber]]
    ELSE [exists |-> FALSE, spotID |-> <<>>]

\* SearchVehicle looking the vehicle up in the history first
SearchVehicleHistoryFirst(vehicleNumber) ==
    IF vehicleNumber \in DOMAIN vehicleHistory
    THEN [spotID |-> vehicleHistory[vehicleNumber], isParked |-> FALSE, err |-> ""]
    ELSE IF vehicleNumber \in DOMAIN vehicleMap
    THEN [spotID |-> vehicleMap[vehicleNumber], isParked |-> TRUE, err |-> ""]
    ELSE [spotID |-> <<>>, isParked |-> FALSE, err |-> ErrNeverParked]

SearchVehicle(vehicleNumber) ==
    IF vehicleNumber \in DOMAIN vehicleMap
    THEN [spotID |-> vehicleMap[vehicleNumber], isParked |-> TRUE, err |-> ""]
    ELSE IF vehicleNumber \in DOMAIN vehicleHistory
    THEN [spotID |-> vehicleHistory[vehicleNumber], isParked |-> FALSE, err |-> ""]
    ELSE [spotID |-> <<>>, isParked |-> FALSE, err |-> ErrNeverParked]

RepoConfigureSpot(floor, row, column, vehicleType, isActive) ==
    IF ~isValidLocation(floor, row, column)
    THEN [err |-> ErrInvalidLocation, spots |-> spots]
    ELSE [err |-> "",
          spots |-> [spots EXCEPT ![<<floor, row, column>>] =
                        [@ EXCEPT !.VehicleType = vehicleType, !.IsActive = isActive]]]

ParkVehicle(spotID, vehicleNumber) ==
    LET at == parseSpotID(spotID)
    IN  IF at.err # ""
        THEN [err |-> at.err, spots |-> spots, vehicleMap |-> vehicleMap]
        ELSE [err |-> "",
              spots |-> [spots EXCEPT ![<<at.floor, at.row, at.column>>] =
                            [@ EXCEPT !.IsOccupied = TRUE,
                                      !.VehicleNumber = vehicleNumber]],
              vehicleMap |-> MapPut(vehicleMap, vehicleNumber, spotID)]

\* UnparkVehicle leaving the current entry of the vehicle in place
UnparkVehicleKeepsCurrent(floor, row, column, vehicleNumber) ==
    LET same(e) == [err |-> e, spots |-> spots, vehicleMap |-> vehicleMap,
                    vehicleHistory |-> vehicleHistory]
    IN  IF ~isValidLocation(floor, row, column) THEN same(ErrInvalidLocation)
        ELSE IF \/ ~spots[<<floor, row, column>>].IsOccupied
                \/ spots[<<floor, row, column>>].VehicleNumber # vehicleNumber
        THEN same(ErrVehicleNotAtSpot)
        ELSE [err |-> "",
              spots |-> [spots EXCEPT ![<<floor, row, column>>] =
                            [@ EXCEPT !.IsOccupied = FALSE, !.VehicleNumber = ""]],
              vehicleMap |-> vehicleMap,
              vehicleHistory |-> MapPut(vehicleHistory, vehicleNumber,
                                        SprintfSpotID(floor, row, column))]

\* UnparkVehicle leaving the spot marked occupied
UnparkVehicleLeavesSpotOccupied(floor, row, column, vehicleNumber) ==
    LET same(e) == [err |-> e, spots |-> spots, vehicleMap |-> vehicleMap,
                    vehicleHistory |-> vehicleHistory]
    IN  IF ~isValidLocation(floor, row, column) THEN same(ErrInvalidLocation)
        ELSE IF \/ ~spots[<<floor, row, column>>].IsOccupied
                \/ spots[<<floor, row, column>>].VehicleNumber # vehicleNumber
        THEN same(ErrVehicleNotAtSpot)
        ELSE [err |-> "",
              spots |-> spots,
              vehicleMap |-> MapDelete(vehicleMap, vehicleNumber),
              vehicleHistory |-> MapPut(vehicleHistory, vehicleNumber,
                                        SprintfSpotID(floor, row, column))]

UnparkVehicle(floor, row, column, vehicleNumber) ==
    LET same(e) == [err |-> e, spots |-> spots, vehicleMap |-> vehicleMap,
                    vehicleHistory |-> vehicleHistory]
    IN  IF ~isValidLocation(floor, row, column) THEN same(ErrInvalidLocation)
        ELSE IF \/ ~spots[<<floor, row, column>>].IsOccupied
                \/ spots[<<floor, row, column>>].VehicleNumber # vehicleNumber
        THEN same(ErrVehicleNotAtSpot)
        ELSE [err |-> "",
              spots |-> [spots EXCEPT ![<<floor, row, column>>] =
                            [@ EXCEPT !.IsOccupied = FALSE, !.VehicleNumber = ""]],
              vehicleMap |-> MapDelete(vehicleMap, vehicleNumber),
              vehicleHistory |-> MapPut(vehicleHistory, vehicleNumber,
                                        SprintfSpotID(floor, row, column))]

(***************************************************************************)
(* Service helpers.                                                        *)
(***************************************************************************)
validateVehicleType(vehicleType) ==
    IF vehicleType \in {Bicycle, Motorcycle, Automobile} THEN "" ELSE ErrInvalidVehicleType

\* validateVehicleNumber letting the empty vehicle number through
validateVehicleNumberAcceptsEmpty(vehicleNumber) == ""

validateVehicleNumber(vehicleNumber) ==
    IF vehicleNumber = "" THEN ErrEmptyVehicleNumber ELSE ""

\* the switch of ParkingService.ConfigureSpot
SpotTypeOf(spotType) ==
    CASE spotType = "B-1" -> [vehicleType |-> Bicycle, isActive |-> TRUE, err |-> ""]
      [] spotType = "M-1" -> [vehicleType |-> Motorcycle, isActive |-> TRUE, err |-> ""]
      [] spotType = "A-1" -> [vehicleType |-> Automobile, isActive |-> TRUE, err |-> ""]
      [] spotType = "X-0" -> [vehicleType |-> "", isActive |-> FALSE, err |-> ""]
      [] OTHER -> [vehicleType |-> "", isActive |-> FALSE, err |-> ErrInvalidSpotType]

\* the argument checks of ParkingService.InitializeParkingLot
ValidateDimensions(F, R, C, G) ==
    IF F < 1 \/ F > MaxFloors THEN ErrFloorsRange
    ELSE IF R < 1 \/ R > MaxRows THEN ErrRowsRange
    ELSE IF C < 1 \/ C > MaxColumns THEN ErrColumnsRange
    ELSE IF G < 1 THEN ErrGatesRange
    ELSE ""

(***************************************************************************)
(* Service methods, cut at the repository calls.  The state of a caller is *)
(* the call it is in (call[p]) and the repository call it makes next       *)
(* (pc[p]).                                                                *)
(***************************************************************************)
\* spot identifiers offered to Unpark: in range, out of range and malformed
SpotIDInputs ==
    {SprintfSpotID(0, 0, c) : c \in 0..MaxColsIn} \cup {<<"0", "-", "0">>}
\* coordinates offered to ConfigureSpot: in range and out of range
LocationInputs == {<<0, 0, c>> : c \in 0..MaxColsIn}

NoCall ==
    [op |-> "", vehicleType |-> "", vehicleNumber |-> "", spotID |-> <<>>,
     floor |-> 0, row |-> 0, column |-> 0, spotType |-> "", isActive |-> FALSE,
     err |-> "", at |-> <<>>, spotIDs |-> <<>>, isParked |-> FALSE, holds |-> ""]

\* caller p enters a service method; callers that are in no call are
\* interchangeable, so the first of them takes the call
Enter(p) ==
    /\ pc[p] = "idle"
    /\ \A q \in Procs : q < p => pc[q] # "idle"
    /\ ncalls < MaxCalls
    /\ ncalls' = ncalls + 1

\* the caller moves on to its next repository call; the repository method it
\* comes from has released the lock (defer r.mutex.Unlock() / RUnlock())
Goto(p, label, c) ==
    /\ pc' = [pc EXCEPT ![p] = label]
    /\ call' = [call EXCEPT ![p] = [c EXCEPT !.holds = ""]]
    /\ ret' = NoCall

\* the call returns err ("" for nil) and its caller is free for another call
Return(p, c, err) ==
    /\ pc' = [pc EXCEPT ![p] = "idle"]
    /\ call' = [call EXCEPT ![p] = NoCall]
    /\ ret' = [c EXCEPT !.err = err, !.holds = ""]

\* ParkCheck asking IsVehicleParked before it validates its arguments
ParkCheckReadsStateFirst(vehicleType, vehicleNumber) ==
    IF IsVehicleParked(vehicleNumber).exists
    THEN [err |-> ErrVehicleAlreadyParked, at |-> IsVehicleParked(vehicleNumber).spotID]
    ELSE IF validateVehicleType(vehicleType) # ""
    THEN [err |-> validateVehicleType(vehicleType), at |-> <<>>]
    ELSE IF validateVehicleNumber(vehicleNumber) # ""
    THEN [err |-> validateVehicleNumber(vehicleNumber), at |-> <<>>]
    ELSE [err |-> "", at |-> <<>>]

\* ParkingService.Park up to and including IsVehicleParked
ParkCheck(vehicleType, vehicleNumber) ==
    IF validateVehicleType(vehicleType) # ""
    THEN [err |-> validateVehicleType(vehicleType), at |-> <<>>]
    ELSE IF validateVehicleNumber(vehicleNumber) # ""
    THEN [err |-> validateVehicleNumber(vehicleNumber), at |-> <<>>]
    ELSE IF IsVehicleParked(vehicleNumber).exists
    THEN [err |-> ErrVehicleAlreadyParked, at |-> IsVehicleParked(vehicleNumber).spotID]
    ELSE [err |-> "", at |-> <<>>]

ParkBegin(p) ==
    /\ Enter(p)
    /\ \E vehicleType \in VehicleTypes, vehicleNumber \in VehicleNumbers :
          LET c == [NoCall EXCEPT !.op = "Park", !.vehicleType = vehicleType,
                                  !.vehicleNumber = vehicleNumber]
              chk == ParkCheck(vehicleType, vehicleNumber)
          IN  IF chk.err # "" THEN Return(p, [c EXCEPT !.at = chk.at], chk.err)
              ELSE Goto(p, "Park_Find", c)
    /\ UNCHANGED <<repo, parkedSince>>

\* spotID, err := s.repo.FindAvailableSpot(vehicleType)
ParkFind(p) ==
    /\ pc[p] = "Park_Find"
    /\ LET found == FindAvailableSpot(call[p].vehicleType)
       IN  IF found.err # "" THEN Return(p, call[p], ErrNoAvailableSpot)
           ELSE Goto(p, "Park_Occupy", [call[p] EXCEPT !.spotID = found.spotID])
    /\ UNCHANGED <<repo, parkedSince, ncalls>>

\* err = s.repo.ParkVehicle(spotID, vehicleNumber)
ParkOccupy(p) ==
    /\ pc[p] = "Park_Occupy"
    /\ LET out == ParkVehicle(call[p].spotID, call[p].vehicleNumber)
       IN  /\ spots' = out.spots
           /\ vehicleMap' = out.vehicleMap
           /\ Return(p, call[p], out.err)
           /\ parkedSince' =
                 IF out.err = ""
                 THEN [parkedSince EXCEPT ![call[p].vehicleNumber] = @ + 1]
                 ELSE parkedSince
    /\ UNCHANGED <<floors, rows, columns, gates, vehicleHistory, ncalls>>

\* UnparkCheck without its test that the vehicle is parked
UnparkCheckSkipsParkedTest(spotID, vehicleNumber) ==
    IF validateVehicleNumber(vehicleNumber) # "" THEN validateVehicleNumber(vehicleNumber)
    ELSE IF IsVehicleParked(vehicleNumber).spotID # spotID THEN ErrVehicleNotAtSpot
    ELSE ""

\* UnparkCheck parsing the spot identifier before it looks the vehicle up
UnparkCheckParsesFirst(spotID, vehicleNumber) ==
    IF validateVehicleNumber(vehicleNumber) # "" THEN validateVehicleNumber(vehicleNumber)
    ELSE IF ParseSpotID(spotID).err # "" THEN ParseSpotID(spotID).err
    ELSE IF ~IsVehicleParked(vehicleNumber).exists THEN ErrVehicleNotParked
    ELSE IF IsVehicleParked(vehicleNumber).spotID # spotID THEN ErrVehicleNotAtSpot
    ELSE ""

\* UnparkCheck without its comparison of the current entry with the spot ID
UnparkCheckSkipsSpotComparison(spotID, vehicleNumber) ==
    IF validateVehicleNumber(vehicleNumber) # "" THEN validateVehicleNumber(vehicleNumber)
    ELSE IF ~IsVehicleParked(vehicleNumber).exists THEN ErrVehicleNotParked
    ELSE ""

\* ParkingService.Unpark up to and including the comparison of spot IDs
UnparkCheck(spotID, vehicleNumber) ==
    IF validateVehicleNumber(vehicleNumber) # "" THEN validateVehicleNumber(vehicleNumber)
    ELSE IF ~IsVehicleParked(vehicleNumber).exists THEN ErrVehicleNotParked
    ELSE IF IsVehicleParked(vehicleNumber).spotID # spotID THEN ErrVehicleNotAtSpot
    ELSE ""

UnparkBegin(p) ==
    /\ Enter(p)
    /\ \E spotID \in SpotIDInputs, vehicleNumber \in VehicleNumbers :
          LET c == [NoCall EXCEPT !.op = "Unpark", !.spotID = spotID,
                                  !.vehicleNumber = vehicleNumber]
              err == UnparkCheck(spotID, vehicleNumber)
          IN  IF err # "" THEN Return(p, c, err) ELSE Goto(p, "Unpark_Parse", c)
    /\ UNCHANGED <<repo, parkedSince>>

\* floor, row, column, err := s.repo.ParseSpotID(spotID)
UnparkParse(p) ==
    /\ pc[p] = "Unpark_Parse"
    /\ LET at == ParseSpotID(call[p].spotID)
       IN  IF at.err # "" THEN Return(p, call[p], at.err)
           ELSE Goto(p, "Unpark_Release",
                     [call[p] EXCEPT !.floor = at.floor, !.row = at.row,
                                     !.column = at.column])
    /\ UNCHANGED <<repo, parkedSince, ncalls>>

\* return s.repo.UnparkVehicle(floor, row, column, vehicleNumber)
UnparkRelease(p) ==
    /\ pc[p] = "Unpark_Release"
    /\ LET out == UnparkVehicle(call[p].floor, call[p].row, call[p].column,
                                call[p].vehicleNumber)
       IN  /\ spots' = out.spots
           /\ vehicleMap' = out.vehicleMap
           /\ vehicleHistory' = out.vehicleHistory
           /\ Return(p, call[p], out.err)
           /\ parkedSince' =
                 IF out.err = ""
                 THEN [parkedSince EXCEPT ![call[p].vehicleNumber] = 0]
                 ELSE parkedSince
    /\ UNCHANGED <<floors, rows, columns, gates, ncalls>>

\* ParkingService.ConfigureSpot: if !s.repo.IsValidLocation(floor, row, column)
ConfigureBegin(p) ==
    /\ Enter(p)
    /\ \E loc \in LocationInputs, spotType \in SpotTypeCodes :
          LET c == [NoCall EXCEPT !.op = "ConfigureSpot", !.floor = loc[1],
                                  !.row = loc[2], !.column = loc[3],
                                  !.spotType = spotType]
          IN  IF ~IsValidLocation(loc[1], loc[2], loc[3])
              THEN Return(p, c, ErrInvalidLocation)
              ELSE Goto(p, "Configure_Occupied", c)
    /\ UNCHANGED <<repo, parkedSince>>

\* ParkingService.ConfigureSpot from IsSpotOccupied to the end of the switch
ConfigureCheck(floor, row, column, spotType) ==
    LET occ == IsSpotOccupied(floor, row, column)
    IN  IF occ.err # "" THEN [vehicleType |-> "", isActive |-> FALSE, err |-> occ.err]
        ELSE IF occ.occupied
        THEN [vehicleType |-> "", isActive |-> FALSE, err |-> ErrOccupiedReconfigure]
        ELSE SpotTypeOf(spotType)

ConfigureOccupied(p) ==
    /\ pc[p] = "Configure_Occupied"
    /\ LET chk == ConfigureCheck(call[p].floor, call[p].row, call[p].column,
                                 call[p].spotType)
       IN  IF chk.err # "" THEN Return(p, call[p], chk.err)
           ELSE Goto(p, "Configure_Set",
                     [call[p] EXCEPT !.vehicleType = chk.vehicleType,
                                     !.isActive = chk.isActive])
    /\ UNCHANGED <<repo, parkedSince, ncalls>>

\* return s.repo.ConfigureSpot(floor, row, column, vehicleType, isActive)
ConfigureSet(p) ==
    /\ pc[p] = "Configure_Set"
    /\ LET out == RepoConfigureSpot(call[p].floor, call[p].row, call[p].column,
                                    call[p].vehicleType, call[p].isActive)
       IN  /\ spots' = out.spots
           /\ Return(p, call[p], out.err)
    /\ UNCHANGED <<floors, rows, columns, gates, vehicleMap, vehicleHistory, ncalls,
                   parkedSince>>

\* ParkingService.InitializeParkingLot, whose one repository call is its last step
InitializeParkingLot(F, R, C, G) ==
    /\ ret' = [NoCall EXCEPT !.op = "InitializeParkingLot",
                             !.err = ValidateDimensions(F, R, C, G)]
    /\ IF ValidateDimensions(F, R, C, G) # ""
       THEN UNCHANGED <<floors, rows, columns, gates, spots>>
       ELSE /\ floors' = F
            /\ rows' = R
            /\ columns' = C
            /\ gates' = G
            /\ spots' = NewSpots(F, R, C)
    /\ UNCHANGED <<vehicleMap, vehicleHistory, pc, call, ncalls, parkedSince>>

\* main initializes the lot once, before anything else uses it
Startup ==
    /\ floors = 0
    /\ \E F \in FloorInputs, R \in RowInputs, C \in ColumnInputs, G \in GateInputs :
          InitializeParkingLot(F, R, C, G)

\* NewParkingRepository and NewParkingService
Init ==
    /\ floors = 0
    /\ rows = 0
    /\ columns = 0
    /\ gates = 0
    /\ spots = EmptyMap
    /\ vehicleMap = EmptyMap
    /\ vehicleHistory = EmptyMap
    /\ pc = [p \in Procs |-> "idle"]
    /\ call = [p \in Procs |-> NoCall]
    /\ ret = NoCall
    /\ ncalls = 0
    /\ parkedSince = [v \in AllVehicleNumbers |-> 0]

Next ==
    \/ Startup
    \/ \E p \in Procs : ParkBegin(p)
    \/ \E p \in Procs : ParkFind(p)
    \/ \E p \in Procs : ParkOccupy(p)
    \/ \E p \in Procs : UnparkBegin(p)
    \/ \E p \in Procs : UnparkParse(p)
    \/ \E p \in Procs : UnparkRelease(p)
    \/ \E p \in Procs : ConfigureBegin(p)
    \/ \E p \in Procs : ConfigureOccupied(p)
    \/ \E p \in Procs : ConfigureSet(p)

Spec == Init /\ [][Next]_vars

(***************************************************************************)
(* The service used by one caller at a time: a call runs from its entry to *)
(* its return with no other call in between, and is one step.              *)
(***************************************************************************)
\* ParkingService.Park from the result of FindAvailableSpot on
ParkAloneFrom(found, vehicleNumber) ==
    IF found.err # ""
    THEN [err |-> ErrNoAvailableSpot, spotID |-> <<>>, at |-> <<>>,
          spots |-> spots, vehicleMap |-> vehicleMap]
    ELSE [err |-> ParkVehicle(found.spotID, vehicleNumber).err,
          spotID |-> found.spotID, at |-> <<>>,
          spots |-> ParkVehicle(found.spotID, vehicleNumber).spots,
          vehicleMap |-> ParkVehicle(found.spotID, vehicleNumber).vehicleMap]

\* ParkingService.Park
ParkAlone(vehicleType, vehicleNumber) ==
    IF ParkCheck(vehicleType, vehicleNumber).err # ""
    THEN [err |-> ParkCheck(vehicleType, vehicleNumber).err, spotID |-> <<>>,
          at |-> ParkCheck(vehicleType, vehicleNumber).at,
          spots |-> spots, vehicleMap |-> vehicleMap]
    ELSE ParkAloneFrom(FindAvailableSpot(vehicleType), vehicleNumber)

\* ParkingService.Unpark
UnparkAlone(spotID, vehicleNumber) ==
    LET same(e) == [err |-> e, spots |-> spots, vehicleMap |-> vehicleMap,
                    vehicleHistory |-> vehicleHistory]
    IN  IF UnparkCheck(spotID, vehicleNumber) # ""
        THEN same(UnparkCheck(spotID, vehicleNumber))
        ELSE IF ParseSpotID(spotID).err # "" THEN same(ParseSpotID(spotID).err)
        ELSE UnparkVehicle(ParseSpotID(spotID).floor, ParseSpotID(spotID).row,
                           ParseSpotID(spotID).column, vehicleNumber)

\* ParkingService.ConfigureSpot
ConfigureAlone(floor, row, column, spotType) ==
    IF ~IsValidLocation(floor, row, column)
    THEN [err |-> ErrInvalidLocation, spots |-> spots]
    ELSE IF ConfigureCheck(floor, row, column, spotType).err # ""
    THEN [err |-> ConfigureCheck(floor, row, column, spotType).err, spots |-> spots]
    ELSE RepoConfigureSpot(floor, row, column,
                           ConfigureCheck(floor, row, column, spotType).vehicleType,
                           ConfigureCheck(floor, row, column, spotType).isActive)

\* ParkingService.GetAvailableSpots
ServiceGetAvailableSpots(vehicleType) ==
    IF validateVehicleType(vehicleType) # ""
    THEN [spotIDs |-> <<>>, err |-> validateVehicleType(vehicleType)]
    ELSE GetAvailableSpots(vehicleType)

\* ParkingService.SearchVehicle
ServiceSearchVehicle(vehicleNumber) ==
    IF validateVehicleNumber(vehicleNumber) # ""
    THEN [spotID |-> <<>>, isParked |-> FALSE, err |-> validateVehicleNumber(vehicleNumber)]
    ELSE SearchVehicle(vehicleNumber)

\* the call is one of the at most max calls of a run
Counted(max) == ncalls < max /\ ncalls' = ncalls + 1

ParkCall(vehicleType, vehicleNumber) ==
    LET out == ParkAlone(vehicleType, vehicleNumber)
    IN  /\ spots' = out.spots
        /\ vehicleMap' = out.vehicleMap
        /\ ret' = [NoCall EXCEPT !.op = "Park", !.vehicleType = vehicleType,
                                 !.vehicleNumber = vehicleNumber,
                                 !.spotID = out.spotID, !.at = out.at, !.err = out.err]
        /\ parkedSince' =
              IF out.err = "" THEN [parkedSince EXCEPT ![vehicleNumber] = @ + 1]
              ELSE parkedSince
        /\ UNCHANGED <<floors, rows, columns, gates, vehicleHistory, pc, call>>

UnparkCall(spotID, vehicleNumber) ==
    LET out == UnparkAlone(spotID, vehicleNumber)
    IN  /\ spots' = out.spots
        /\ vehicleMap' = out.vehicleMap
        /\ vehicleHistory' = out.vehicleHistory
        /\ ret' = [NoCall EXCEPT !.op = "Unpark", !.spotID = spotID,
                                 !.vehicleNumber = vehicleNumber, !.err = out.err]
        /\ parkedSince' =
              IF out.err = "" THEN [parkedSince EXCEPT ![vehicleNumber] = 0]
              ELSE parkedSince
        /\ UNCHANGED <<floors, rows, columns, gates, pc, call>>

ConfigureSpotCall(floor, row, column, spotType) ==
    LET out == ConfigureAlone(floor, row, column, spotType)
    IN  /\ spots' = out.spots
        /\ ret' = [NoCall EXCEPT !.op = "ConfigureSpot", !.floor = floor, !.row = row,
                                 !.column = column, !.spotType = spotType,
                                 !.err = out.err]
        /\ UNCHANGED <<floors, rows, columns, gates, vehicleMap, vehicleHistory,
                       pc, call, parkedSince>>

GetAvailableSpotsCall(vehicleType) ==
    /\ ret' = [NoCall EXCEPT !.op = "GetAvailableSpots", !.vehicleType = vehicleType,
                             !.spotIDs = ServiceGetAvailableSpots(vehicleType).spotIDs,
                             !.err = ServiceGetAvailableSpots(vehicleType).err]
    /\ UNCHANGED <<repo, pc, call, parkedSince>>

SearchVehicleCall(vehicleNumber) ==
    /\ ret' = [NoCall EXCEPT !.op = "SearchVehicle", !.vehicleNumber = vehicleNumber,
                             !.spotID = ServiceSearchVehicle(vehicleNumber).spotID,
                             !.isParked = ServiceSearchVehicle(vehicleNumber).isParked,
                             !.err = ServiceSearchVehicle(vehicleNumber).err]
    /\ UNCHANGED <<repo, pc, call, parkedSince>>

\* the repository's FindAvailableSpot called on its own
FindAvailableSpotCall(vehicleType) ==
    /\ ret' = [NoCall EXCEPT !.op = "FindAvailableSpot", !.vehicleType = vehicleType,
                             !.spotID = FindAvailableSpot(vehicleType).spotID,
                             !.err = FindAvailableSpot(vehicleType).err]
    /\ UNCHANGED <<repo, pc, call, parkedSince>>

(***************************************************************************)
(* One caller on lots of up to two floors, two rows and two columns.       *)
(***************************************************************************)
\* the in-range lot sizes of each dimension
GridDims == {1, 2}
GridFloorInputs == {0, MaxFloors + 1} \cup GridDims
\* the coordinates of the largest lot; some lie outside of the smaller lots
GridLocations == {0, 1} \X {0, 1} \X {0, 1}
GridSpotTypeCodes == {"B-1", "M-1"}
GridVehicleNumbers == {"BC1", "BC2"}
GridVehicleTypes == {Bicycle, Motorcycle}
\* the types asked of the service, an unknown one included
GridQueryTypes == {Bicycle, Motorcycle, "Truck"}
\* the types asked of the repository, the empty one included
GridFindTypes == {Bicycle, Motorcycle, ""}

GridStartup ==
    /\ floors = 0
    /\ \E F \in GridFloorInputs, R \in GridDims, C \in GridDims :
          InitializeParkingLot(F, R, C, 1)

GridConfigureSpot ==
    /\ Counted(MaxGridCalls)
    /\ \E loc \in GridLocations, spotType \in GridSpotTypeCodes :
          ConfigureSpotCall(loc[1], loc[2], loc[3], spotType)

GridPark ==
    /\ Counted(MaxGridCalls)
    /\ \E vehicleType \in GridVehicleTypes, vehicleNumber \in GridVehicleNumbers :
          ParkCall(vehicleType, vehicleNumber)

\* the caller unparks a vehicle from the spot it is parked at
GridUnpark ==
    /\ Counted(MaxGridCalls)
    /\ \E vehicleNumber \in DOMAIN vehicleMap :
          UnparkCall(vehicleMap[vehicleNumber], vehicleNumber)

GridGetAvailableSpots ==
    /\ Counted(MaxGridCalls)
    /\ \E vehicleType \in GridQueryTypes : GetAvailableSpotsCall(vehicleType)

GridFindAvailableSpot ==
    /\ Counted(MaxGridCalls)
    /\ \E vehicleType \in GridFindTypes : FindAvailableSpotCall(vehicleType)

GridNext ==
    \/ GridStartup
    \/ GridConfigureSpot
    \/ GridPark
    \/ GridUnpark
    \/ GridGetAvailableSpots
    \/ GridFindAvailableSpot

GridSpec == Init /\ [][GridNext]_vars

(***************************************************************************)
(* One caller on the lot of one floor, one row and two columns, making any *)
(* number of calls.                                                        *)
(***************************************************************************)
SeqLocations == {<<0, 0, 0>>, <<0, 0, 1>>}
SeqSpotTypeCodes == {"B-1", "X-0"}
SeqSpotIDs == {SprintfSpotID(loc[1], loc[2], loc[3]) : loc \in SeqLocations}

SeqStartup ==
    /\ floors = 0
    /\ \E G \in GateInputs : InitializeParkingLot(1, 1, 2, G)

SeqConfigureSpot ==
    /\ \E loc \in SeqLocations, spotType \in SeqSpotTypeCodes :
          ConfigureSpotCall(loc[1], loc[2], loc[3], spotType)
    /\ UNCHANGED ncalls

SeqPark ==
    /\ \E vehicleType \in VehicleTypes, vehicleNumber \in SeqVehicleNumbers :
          ParkCall(vehicleType, vehicleNumber)
    /\ UNCHANGED ncalls

SeqUnpark ==
    /\ \E spotID \in SeqSpotIDs, vehicleNumber \in SeqVehicleNumbers :
          UnparkCall(spotID, vehicleNumber)
    /\ UNCHANGED ncalls

SeqSearchVehicle ==
    /\ \E vehicleNumber \in SeqVehicleNumbers : SearchVehicleCall(vehicleNumber)
    /\ UNCHANGED ncalls

SeqNext ==
    \/ SeqStartup
    \/ SeqConfigureSpot
    \/ SeqPark
    \/ SeqUnpark
    \/ SeqSearchVehicle

SeqSpec == Init /\ [][SeqNext]_vars

(***************************************************************************)
(* One caller that also calls InitializeParkingLot again, on the lot as it *)
(* is by then: with the same two columns, with one column, or with         *)
(* dimensions that the service turns away.                                 *)
(***************************************************************************)
Reinitialize ==
    /\ floors # 0
    /\ \E C \in {0, 1, 2}, G \in GateInputs : InitializeParkingLot(1, 1, C, G)

ReinitConfigureSpot ==
    /\ \E loc \in SeqLocations, spotType \in SeqSpotTypeCodes :
          ConfigureSpotCall(loc[1], loc[2], loc[3], spotType)
    /\ UNCHANGED ncalls

ReinitPark ==
    /\ \E vehicleNumber \in VehicleNumbers : ParkCall(Bicycle, vehicleNumber)
    /\ UNCHANGED ncalls

ReinitUnpark ==
    /\ \E spotID \in SeqSpotIDs, vehicleNumber \in VehicleNumbers :
          UnparkCall(spotID, vehicleNumber)
    /\ UNCHANGED ncalls

ReinitSearchVehicle ==
    /\ \E vehicleNumber \in VehicleNumbers : SearchVehicleCall(vehicleNumber)
    /\ UNCHANGED ncalls

ReinitNext ==
    \/ SeqStartup
    \/ Reinitialize
    \/ ReinitConfigureSpot
    \/ ReinitPark
    \/ ReinitUnpark
    \/ ReinitSearchVehicle

ReinitSpec == Init /\ [][ReinitNext]_vars

(***************************************************************************)
(* The callers with the repository's RWMutex as a state of its own:        *)
(* call[p].holds is "W" while caller p is inside a method that took        *)
(* r.mutex.Lock(), "R" inside one that took r.mutex.RLock(), "pending"     *)
(* while its Lock() waits for the holders to leave, and "" else.  A        *)
(* repository call is the lock being requested and granted and then the    *)
(* method running to its return, where the deferred unlock releases the    *)
(* lock.  As in sync.RWMutex, a pending Lock() holds later RLock()s back.  *)
(***************************************************************************)
\* the lock each repository method takes on entry
LockMode(label) ==
    IF label \in {"Park_Occupy", "Unpark_Release", "Configure_Set"} THEN "W" ELSE "R"

\* ParkVehicle taking the lock a second time, through ParseSpotID
NestedModeParkVehicleLocksAgain(label) == IF label = "Park_Occupy" THEN "R" ELSE ""

\* the lock a repository method takes while it already holds one: none, the
\* helpers parseSpotID and isValidLocation that the methods call do not lock
NestedMode(label) == ""

Writers == {p \in Procs : call[p].holds = "W"}
Readers == {p \in Procs : call[p].holds = "R"}
PendingWriters == {p \in Procs : call[p].holds = "pending"}

\* sync.RWMutex: Lock returns when no one holds the lock, RLock when no
\* writer holds it or waits for it
Granted(mode) ==
    \/ mode = ""
    \/ mode = "R" /\ Writers = {} /\ PendingWriters = {}
    \/ mode = "W" /\ Writers = {} /\ Readers = {}

\* r.mutex.Lock() at the head of a repository method is called
RequestLock(p) ==
    /\ pc[p] # "idle"
    /\ LockMode(pc[p]) = "W"
    /\ call[p].holds = ""
    /\ call' = [call EXCEPT ![p].holds = "pending"]
    /\ ret' = NoCall
    /\ UNCHANGED <<repo, pc, ncalls, parkedSince>>

\* r.mutex.Lock() or r.mutex.RLock() at the head of a repository method returns
Acquire(p) ==
    /\ pc[p] # "idle"
    /\ call[p].holds = IF LockMode(pc[p]) = "W" THEN "pending" ELSE ""
    /\ Granted(LockMode(pc[p]))
    /\ call' = [call EXCEPT ![p].holds = LockMode(pc[p])]
    /\ ret' = NoCall
    /\ UNCHANGED <<repo, pc, ncalls, parkedSince>>

\* caller p is inside a repository method and can run it to its return
InCriticalSection(p) == call[p].holds \in {"R", "W"} /\ Granted(NestedMode(pc[p]))

\* the calls the callers make
LockCalls ==
    {[NoCall EXCEPT !.op = "Park", !.vehicleType = vehicleType, !.vehicleNumber = "BC1"] :
        vehicleType \in VehicleTypes}
    \cup {[NoCall EXCEPT !.op = "Unpark", !.spotID = SprintfSpotID(0, 0, 0),
                         !.vehicleNumber = "BC1"]}
    \cup {[NoCall EXCEPT !.op = "ConfigureSpot", !.floor = loc[1], !.row = loc[2],
                         !.column = loc[3], !.spotType = spotType] :
              loc \in LocationInputs, spotType \in {"B-1", "Z-9"}}
    \cup {[NoCall EXCEPT !.op = "GetAvailableSpots", !.vehicleType = vehicleType] :
              vehicleType \in VehicleTypes}
    \cup {[NoCall EXCEPT !.op = "SearchVehicle", !.vehicleNumber = vehicleNumber] :
              vehicleNumber \in {"", "BC1"}}

\* what a service method checks before its first repository call
ValidateArguments(c) ==
    CASE c.op = "Park" ->
            IF validateVehicleType(c.vehicleType) # ""
            THEN validateVehicleType(c.vehicleType)
            ELSE validateVehicleNumber(c.vehicleNumber)
      [] c.op = "Unpark" -> validateVehicleNumber(c.vehicleNumber)
      [] c.op = "GetAvailableSpots" -> validateVehicleType(c.vehicleType)
      [] c.op = "SearchVehicle" -> validateVehicleNumber(c.vehicleNumber)
      [] OTHER -> ""

\* the first repository call of each service method
FirstCall(op) ==
    CASE op = "Park" -> "Park_IsParked"
      [] op = "Unpark" -> "Unpark_IsParked"
      [] op = "ConfigureSpot" -> "Configure_Valid"
      [] op = "GetAvailableSpots" -> "GetAvailableSpots"
      [] op = "SearchVehicle" -> "SearchVehicle"

\* InitializeParkingLot runs under the write lock, from Lock() to the deferred
\* Unlock() in one step
LockStartup ==
    /\ Granted("W")
    /\ Startup

\* caller p enters a service method and runs it up to its first repository call
LockEnter(p) ==
    /\ Enter(p)
    /\ ncalls < MaxLockCalls
    /\ \E c \in LockCalls :
          IF ValidateArguments(c) # "" THEN Return(p, c, ValidateArguments(c))
          ELSE Goto(p, FirstCall(c.op), c)
    /\ UNCHANGED <<repo, parkedSince>>

\* isParked, currentSpotID, _ := s.repo.IsVehicleParked(vehicleNumber) of Park
LockParkIsParked(p) ==
    /\ pc[p] = "Park_IsParked"
    /\ InCriticalSection(p)
    /\ LET chk == ParkCheck(call[p].vehicleType, call[p].vehicleNumber)
       IN  IF chk.err # "" THEN Return(p, [call[p] EXCEPT !.at = chk.at], chk.err)
           ELSE Goto(p, "Park_Find", call[p])
    /\ UNCHANGED <<repo, parkedSince, ncalls>>

\* isParked, currentSpotID, err := s.repo.IsVehicleParked(vehicleNumber) of Unpark
LockUnparkIsParked(p) ==
    /\ pc[p] = "Unpark_IsParked"
    /\ InCriticalSection(p)
    /\ IF UnparkCheck(call[p].spotID, call[p].vehicleNumber) # ""
       THEN Return(p, call[p], UnparkCheck(call[p].spotID, call[p].vehicleNumber))
       ELSE Goto(p, "Unpark_Parse", call[p])
    /\ UNCHANGED <<repo, parkedSince, ncalls>>

\* if !s.repo.IsValidLocation(floor, row, column) of ConfigureSpot
LockConfigureValid(p) ==
    /\ pc[p] = "Configure_Valid"
    /\ InCriticalSection(p)
    /\ IF ~IsValidLocation(call[p].floor, call[p].row, call[p].column)
       THEN Return(p, call[p], ErrInvalidLocation)
       ELSE Goto(p, "Configure_Occupied", call[p])
    /\ UNCHANGED <<repo, parkedSince, ncalls>>

\* return s.repo.GetAvailableSpots(vehicleType)
LockGetAvailableSpots(p) ==
    /\ pc[p] = "GetAvailableSpots"
    /\ InCriticalSection(p)
    /\ Return(p, [call[p] EXCEPT !.spotIDs = GetAvailableSpots(call[p].vehicleType).spotIDs],
              GetAvailableSpots(call[p].vehicleType).err)
    /\ UNCHANGED <<repo, parkedSince, ncalls>>

\* return s.repo.SearchVehicle(vehicleNumber)
LockSearchVehicle(p) ==
    /\ pc[p] = "SearchVehicle"
    /\ InCriticalSection(p)
    /\ Return(p, [call[p] EXCEPT !.spotID = SearchVehicle(call[p].vehicleNumber).spotID,
                                 !.isParked = SearchVehicle(call[p].vehicleNumber).isParked],
              SearchVehicle(call[p].vehicleNumber).err)
    /\ UNCHANGED <<repo, parkedSince, ncalls>>

\* the later repository calls of Park, Unpark and ConfigureSpot, as in Spec
LockParkFind(p) == InCriticalSection(p) /\ ParkFind(p)
LockParkOccupy(p) == InCriticalSection(p) /\ ParkOccupy(p)
LockUnparkParse(p) == InCriticalSection(p) /\ UnparkParse(p)
LockUnparkRelease(p) == InCriticalSection(p) /\ UnparkRelease(p)
LockConfigureOccupied(p) == InCriticalSection(p) /\ ConfigureOccupied(p)
LockConfigureSet(p) == InCriticalSection(p) /\ ConfigureSet(p)

\* what caller p does once it is in a call
LockStep(p) ==
    \/ RequestLock(p)
    \/ Acquire(p)
    \/ LockParkIsParked(p)
    \/ LockParkFind(p)
    \/ LockParkOccupy(p)
    \/ LockUnparkIsParked(p)
    \/ LockUnparkParse(p)
    \/ LockUnparkRelease(p)
    \/ LockConfigureValid(p)
    \/ LockConfigureOccupied(p)
    \/ LockConfigureSet(p)
    \/ LockGetAvailableSpots(p)
    \/ LockSearchVehicle(p)

LockNext ==
    \/ LockStartup
    \/ \E p \in Procs : LockEnter(p)
    \/ \E p \in Procs : RequestLock(p)
    \/ \E p \in Procs : Acquire(p)
    \/ \E p \in Procs : LockParkIsParked(p)
    \/ \E p \in Procs : LockParkFind(p)
    \/ \E p \in Procs : LockParkOccupy(p)
    \/ \E p \in Procs : LockUnparkIsParked(p)
    \/ \E p \in Procs : LockUnparkParse(p)
    \/ \E p \in Procs : LockUnparkRelease(p)
    \/ \E p \in Procs : LockConfigureValid(p)
    \/ \E p \in Procs : LockConfigureOccupied(p)
    \/ \E p \in Procs : LockConfigureSet(p)
    \/ \E p \in Procs : LockGetAvailableSpots(p)
    \/ \E p \in Procs : LockSearchVehicle(p)

\* the scheduler lets every caller that can take a step take one: a goroutine
\* that is runnable, or whose lock request can be granted, is eventually run
LockSpec == Init /\ [][LockNext]_vars /\ \A p \in Procs : WF_vars(LockStep(p))

(***************************************************************************)
(* Notions the properties are stated with.                                 *)
(***************************************************************************)
\* the spots that hold vehicle v
OccupantSpots(v) ==
    {loc \in DOMAIN spots : spots[loc].IsOccupied /\ spots[loc].VehicleNumber = v}

OccupiedSpots == {loc \in DOMAIN spots : spots[loc].IsOccupied}

\* the coordinates a well-formed, in-range spot identifier names
LocationOf(spotID) ==
    <<parseSpotID(spotID).floor, parseSpotID(spotID).row, parseSpotID(spotID).column>>

\* caller p completes a Park in this step with the repository's ParkVehicle
ParkSucceeds(p) == pc[p] = "Park_Occupy" /\ pc'[p] = "idle" /\ ret'.err = ""

\* a service call is entered in this step; EnteredCall is that call
Entering == ncalls' = ncalls + 1
EnteredCall ==
    IF ret'.op # "" THEN ret'
    ELSE call'[CHOOSE p \in Procs : pc[p] = "idle" /\ pc'[p] # "idle"]

\* the spots a vehicle of the given type can be assigned
AvailableLocations(vehicleType) ==
    {loc \in DOMAIN spots : /\ spots[loc].IsActive
                            /\ spots[loc].VehicleType = vehicleType
                            /\ ~spots[loc].IsOccupied}

\* (floor, row, column) triples in lexicographic order
LexLess(a, b) ==
    \/ a[1] < b[1]
    \/ a[1] = b[1] /\ a[2] < b[2]
    \/ a[1] = b[1] /\ a[2] = b[2] /\ a[3] < b[3]

LexLeast(S) == CHOOSE a \in S : \A b \in S \ {a} : LexLess(a, b)

\* the spot identifiers of the coordinates in S, in ascending order
RECURSIVE AscendingSpotIDs(_)
AscendingSpotIDs(S) ==
    IF S = {} THEN <<>>
    ELSE <<SprintfSpotID(LexLeast(S)[1], LexLeast(S)[2], LexLeast(S)[3])>>
             \o AscendingSpotIDs(S \ {LexLeast(S)})

\* every spot is as InitializeParkingLot allocates it
Unconfigured ==
    \A loc \in DOMAIN spots :
        /\ spots[loc].VehicleType = ""
        /\ ~spots[loc].IsActive
        /\ ~spots[loc].IsOccupied
        /\ spots[loc].VehicleNumber = ""

\* where a vehicle is in its life cycle, as the two indexes tell
VehicleState(v) ==
    IF v \in DOMAIN vehicleMap THEN "Parked"
    ELSE IF v \in DOMAIN vehicleHistory THEN "Unparked"
    ELSE "NeverParked"

\* a call of the given method for vehicle v returns without error in this step
Succeeds(op, v) == ret'.op = op /\ ret'.vehicleNumber = v /\ ret'.err = ""

(***************************************************************************)
(* C1: of the Park calls made for one vehicle since it was last not        *)
(* parked, at most one succeeds (the others are turned away), and the      *)
(* vehicle is the occupant of at most one spot.                            *)
(***************************************************************************)
C1_OneParkPerVehicle ==
    \A v \in VehicleNumbers :
        /\ parkedSince[v] <= 1
        /\ Cardinality(OccupantSpots(v)) <= 1

(***************************************************************************)
(* C2: no two vehicles that are both still parked were assigned the same   *)
(* spot by their Park calls.                                               *)
(***************************************************************************)
C2_NoSpotAssignedTwice ==
    \A v, w \in DOMAIN vehicleMap : v # w => vehicleMap[v] # vehicleMap[w]

(***************************************************************************)
(* C3: at the moment a successful Park marks its spot occupied, the        *)
(* vehicle has no current entry, the spot is unoccupied, and the spot is   *)
(* the first available spot of the requested type of the grid as it is at  *)
(* that moment.                                                            *)
(***************************************************************************)
C3_ParkIsAtomic ==
    [][\A p \in Procs :
          ParkSucceeds(p) =>
              /\ call[p].vehicleNumber \notin DOMAIN vehicleMap
              /\ ~spots[LocationOf(call[p].spotID)].IsOccupied
              /\ FindAvailableSpot(call[p].vehicleType).err = ""
              /\ FindAvailableSpot(call[p].vehicleType).spotID = call[p].spotID]_vars

(***************************************************************************)
(* C4: a successful Park(T, v) returns a spot that is configured with type *)
(* T and was unoccupied before the call occupied it; right after the       *)
(* return the spot is occupied and SearchVehicle(v) yields (spotID, true). *)
(***************************************************************************)
C4_ParkReturnsFreeSpotOfType ==
    [][\A p \in Procs :
          ParkSucceeds(p) =>
              /\ spots[LocationOf(call[p].spotID)].VehicleType = call[p].vehicleType
              /\ ~spots[LocationOf(call[p].spotID)].IsOccupied
              /\ spots'[LocationOf(call[p].spotID)].VehicleType = call[p].vehicleType
              /\ spots'[LocationOf(call[p].spotID)].IsOccupied
              /\ vehicleMap'[call[p].vehicleNumber] = call[p].spotID]_vars

(***************************************************************************)
(* C5: for every vehicle v with current[v] = s, Unpark(s, v) succeeds, and *)
(* it leaves history[v] = s, no current entry for v (so that SearchVehicle *)
(* yields (s, false) and Park does not turn v away as already parked) and  *)
(* spot s unoccupied.                                                      *)
(***************************************************************************)
C5_ParkedVehicleCanUnpark ==
    \A v \in DOMAIN vehicleMap :
        LET out == UnparkAlone(vehicleMap[v], v)
        IN  /\ out.err = ""
            /\ v \notin DOMAIN out.vehicleMap
            /\ v \in DOMAIN out.vehicleHistory
            /\ out.vehicleHistory[v] = vehicleMap[v]
            /\ ~out.spots[LocationOf(vehicleMap[v])].IsOccupied

(***************************************************************************)
(* C6: Unpark(s, v) of a vehicle with no current entry fails with          *)
(* VehicleNotParked, and of a vehicle whose current entry differs from s   *)
(* with VehicleNotAtSpot; a failing Unpark leaves the grid and both        *)
(* indexes as they were.                                                   *)
(***************************************************************************)
C6_FailedUnparkChangesNothing ==
    [][/\ (Entering /\ EnteredCall.op = "Unpark" /\ EnteredCall.vehicleNumber # "") =>
              /\ (EnteredCall.vehicleNumber \notin DOMAIN vehicleMap) =>
                    (/\ ret' = [EnteredCall EXCEPT !.err = ErrVehicleNotParked]
                     /\ UNCHANGED repo)
              /\ (/\ EnteredCall.vehicleNumber \in DOMAIN vehicleMap
                  /\ vehicleMap[EnteredCall.vehicleNumber] # EnteredCall.spotID) =>
                    (/\ ret' = [EnteredCall EXCEPT !.err = ErrVehicleNotAtSpot]
                     /\ UNCHANGED repo)
       /\ (ret'.op = "Unpark" /\ ret'.err # "") => UNCHANGED repo]_vars

\* an Unpark has just failed with VehicleNotAtSpot on a spot that another
\* vehicle occupies
C6_Witness ==
    /\ ret.op = "Unpark"
    /\ ret.err = ErrVehicleNotAtSpot
    /\ ret.vehicleNumber \in DOMAIN vehicleMap
    /\ vehicleMap[ret.vehicleNumber] # ret.spotID
    /\ parseSpotID(ret.spotID).err = ""
    /\ spots[LocationOf(ret.spotID)].IsOccupied
    /\ spots[LocationOf(ret.spotID)].VehicleNumber # ret.vehicleNumber

(***************************************************************************)
(* C7: once a Park for v has succeeded and no Unpark for v has succeeded   *)
(* since, every further Park(T', v) with a valid T' fails with             *)
(* VehicleAlreadyParked carrying v's current spot, and the number of       *)
(* occupied spots is the same after the failed call as before it.          *)
(***************************************************************************)
C7_SecondParkFails ==
    [][(/\ Entering
        /\ EnteredCall.op = "Park"
        /\ validateVehicleType(EnteredCall.vehicleType) = ""
        /\ parkedSince[EnteredCall.vehicleNumber] >= 1) =>
           /\ ret'.op = "Park"
           /\ ret'.err = ErrVehicleAlreadyParked
           /\ EnteredCall.vehicleNumber \in DOMAIN vehicleMap
           /\ ret'.at = vehicleMap[EnteredCall.vehicleNumber]
           /\ Cardinality(OccupiedSpots') = Cardinality(OccupiedSpots)]_vars

\* a Park has just been turned away for a vehicle that holds a spot
C7_Witness ==
    /\ ret.op = "Park"
    /\ ret.err = ErrVehicleAlreadyParked
    /\ parkedSince[ret.vehicleNumber] = 1
    /\ ret.at = vehicleMap[ret.vehicleNumber]
    /\ OccupantSpots(ret.vehicleNumber) = {LocationOf(ret.at)}

(***************************************************************************)
(* C8: the type and the active flag of a spot never change while the spot  *)
(* is occupied (ConfigureSpot on an occupied spot fails and leaves them).  *)
(***************************************************************************)
C8_OccupiedSpotKeepsConfiguration ==
    [][\A loc \in DOMAIN spots :
          spots[loc].IsOccupied =>
              /\ spots'[loc].VehicleType = spots[loc].VehicleType
              /\ spots'[loc].IsActive = spots[loc].IsActive]_vars

(***************************************************************************)
(* C9: no spot is both inactive and occupied.                              *)
(***************************************************************************)
C9_InactiveSpotNeverOccupied ==
    \A loc \in DOMAIN spots : ~(~spots[loc].IsActive /\ spots[loc].IsOccupied)

(***************************************************************************)
(* C10: every spot is occupied if and only if its occupant vehicle number  *)
(* is non-empty.                                                           *)
(***************************************************************************)
C10_OccupiedIffOccupantNamed ==
    \A loc \in DOMAIN spots : spots[loc].IsOccupied <=> spots[loc].VehicleNumber # ""

\* one spot holds a vehicle and another has been released by one
C10_Witness ==
    \E loc, free \in DOMAIN spots :
        /\ spots[loc].IsOccupied
        /\ spots[loc].VehicleNumber # ""
        /\ ~spots[free].IsOccupied
        /\ \E v \in DOMAIN vehicleHistory : vehicleHistory[v] = SprintfSpotID(free[1], free[2], free[3])

(***************************************************************************)
(* C11: FindAvailableSpot(T) yields the lexicographically smallest (floor,  *)
(* row, column) among the spots that are active, of type T and unoccupied, *)
(* and fails with NoAvailableSpot exactly when there is none; a call       *)
(* leaves the repository as it was, and a repeated call yields the same.   *)
(***************************************************************************)
C11_FindYieldsLeastAvailable ==
    /\ [](\A vehicleType \in GridFindTypes \cup GridQueryTypes :
             IF AvailableLocations(vehicleType) = {}
             THEN FindAvailableSpot(vehicleType).err = ErrNoAvailableSpot
             ELSE /\ FindAvailableSpot(vehicleType).err = ""
                  /\ FindAvailableSpot(vehicleType).spotID =
                         SprintfSpotID(LexLeast(AvailableLocations(vehicleType))[1],
                                       LexLeast(AvailableLocations(vehicleType))[2],
                                       LexLeast(AvailableLocations(vehicleType))[3]))
    /\ [][\A vehicleType \in GridFindTypes \cup GridQueryTypes :
              (ret'.op = "FindAvailableSpot" /\ ret'.vehicleType = vehicleType) =>
                  /\ UNCHANGED repo
                  /\ ret'.spotID = FindAvailableSpot(vehicleType).spotID
                  /\ ret'.err = FindAvailableSpot(vehicleType).err
                  /\ FindAvailableSpot(vehicleType)' = FindAvailableSpot(vehicleType)]_vars

\* FindAvailableSpot has just passed over an active spot of another type and
\* chosen among two available ones, the one on the lower floor although its
\* column is the higher
C11_Witness ==
    /\ ret.op = "FindAvailableSpot"
    /\ ret.err = ""
    /\ \E a, b \in AvailableLocations(ret.vehicleType) :
          /\ a[1] < b[1] /\ b[3] < a[3]
          /\ ret.spotID = SprintfSpotID(a[1], a[2], a[3])
          /\ \E c \in DOMAIN spots :
                /\ LexLess(c, a)
                /\ spots[c].IsActive
                /\ spots[c].VehicleType # ret.vehicleType

(***************************************************************************)
(* C12: GetAvailableSpots(T) fails with InvalidVehicleType when T is not    *)
(* one of the three kinds and with NoAvailableSpot exactly when no spot is *)
(* active, of type T and unoccupied; otherwise it yields exactly those     *)
(* spots, as spot identifiers in ascending (floor, row, column) order with *)
(* no duplicates, the first being the one FindAvailableSpot(T) yields.     *)
(***************************************************************************)
C12_ListIsAllAvailableAscending ==
    [][ret'.op = "GetAvailableSpots" =>
          IF ret'.vehicleType \notin {Bicycle, Motorcycle, Automobile}
          THEN ret'.err = ErrInvalidVehicleType
          ELSE IF AvailableLocations(ret'.vehicleType) = {}
          THEN ret'.err = ErrNoAvailableSpot
          ELSE /\ ret'.err = ""
               /\ ret'.spotIDs = AscendingSpotIDs(AvailableLocations(ret'.vehicleType))
               /\ \A i, j \in 1..Len(ret'.spotIDs) :
                     i # j => ret'.spotIDs[i] # ret'.spotIDs[j]
               /\ ret'.spotIDs[1] = FindAvailableSpot(ret'.vehicleType).spotID]_vars

\* GetAvailableSpots has just listed two spots on different floors, leaving out
\* a spot of another type that lies between them
C12_Witness ==
    /\ ret.op = "GetAvailableSpots"
    /\ ret.err = ""
    /\ Len(ret.spotIDs) = 2
    /\ \E a, b \in AvailableLocations(ret.vehicleType), c \in DOMAIN spots :
          /\ a[1] < b[1] /\ b[3] < a[3]
          /\ LexLess(a, c) /\ LexLess(c, b)
          /\ spots[c].IsActive
          /\ spots[c].VehicleType # ret.vehicleType

(***************************************************************************)
(* C13: from the lot of init(1,1,2,1) with (0,0,0) and (0,0,1) configured  *)
(* "B-1": Park(Bicycle,"BC1") yields "0-0-0"; then Park(Bicycle,"BC2")     *)
(* yields "0-0-1"; then Park(Bicycle,"BC3") fails with NoAvailableSpot;    *)
(* then Unpark("0-0-0","BC1") succeeds; then SearchVehicle("BC1") yields   *)
(* ("0-0-0", false); then Park(Bicycle,"BC3") yields "0-0-0".  Each line   *)
(* is a call made in the state the line before it leaves behind.           *)
(***************************************************************************)
C13_Spot0 == <<"0", "-", "0", "-", "0">>
C13_Spot1 == <<"0", "-", "0", "-", "1">>

\* a spot of the scenario: configured "B-1" or not at all, held by occupant or free
C13_SpotOf(configured, occupant) ==
    [VehicleType |-> IF configured THEN Bicycle ELSE "", IsActive |-> configured,
     IsOccupied |-> occupant # "", VehicleNumber |-> occupant]

\* the lot of the scenario with the given two spots and indexes
C13_LotIs(spot0, spot1, current, history) ==
    /\ floors = 1 /\ rows = 1 /\ columns = 2 /\ gates = 1
    /\ spots = [loc \in {<<0, 0, 0>>, <<0, 0, 1>>} |-> IF loc[3] = 0 THEN spot0 ELSE spot1]
    /\ vehicleMap = current
    /\ vehicleHistory = history

C13_Configured(occupant0, occupant1, current, history) ==
    C13_LotIs(C13_SpotOf(TRUE, occupant0), C13_SpotOf(TRUE, occupant1), current, history)

C13_ParkOf(vehicleNumber) ==
    ret'.op = "Park" /\ ret'.vehicleType = Bicycle /\ ret'.vehicleNumber = vehicleNumber

C13_OnlyBC2 == [v \in {"BC2"} |-> C13_Spot1]
C13_BC1AndBC2 == [v \in {"BC1", "BC2"} |-> IF v = "BC1" THEN C13_Spot0 ELSE C13_Spot1]
C13_BC2AndBC3 == [v \in {"BC2", "BC3"} |-> IF v = "BC3" THEN C13_Spot0 ELSE C13_Spot1]
C13_BC1Left == [v \in {"BC1"} |-> C13_Spot0]

C13_SequentialScenario ==
    [][/\ (floors = 0 /\ vehicleMap = EmptyMap /\ vehicleHistory = EmptyMap
               /\ InitializeParkingLot(1, 1, 2, 1)) =>
              C13_LotIs(C13_SpotOf(FALSE, ""), C13_SpotOf(FALSE, ""), EmptyMap, EmptyMap)'
       /\ (/\ C13_LotIs(C13_SpotOf(FALSE, ""), C13_SpotOf(FALSE, ""), EmptyMap, EmptyMap)
           /\ ret'.op = "ConfigureSpot" /\ ret'.spotType = "B-1"
           /\ ret'.floor = 0 /\ ret'.row = 0 /\ ret'.column = 0) =>
              /\ ret'.err = ""
              /\ C13_LotIs(C13_SpotOf(TRUE, ""), C13_SpotOf(FALSE, ""), EmptyMap, EmptyMap)'
       /\ (/\ C13_LotIs(C13_SpotOf(TRUE, ""), C13_SpotOf(FALSE, ""), EmptyMap, EmptyMap)
           /\ ret'.op = "ConfigureSpot" /\ ret'.spotType = "B-1"
           /\ ret'.floor = 0 /\ ret'.row = 0 /\ ret'.column = 1) =>
              /\ ret'.err = ""
              /\ C13_Configured("", "", EmptyMap, EmptyMap)'
       /\ (C13_Configured("", "", EmptyMap, EmptyMap) /\ C13_ParkOf("BC1")) =>
              /\ ret'.err = "" /\ ret'.spotID = C13_Spot0
              /\ C13_Configured("BC1", "", C13_BC1Left, EmptyMap)'
       /\ (C13_Configured("BC1", "", C13_BC1Left, EmptyMap) /\ C13_ParkOf("BC2")) =>
              /\ ret'.err = "" /\ ret'.spotID = C13_Spot1
              /\ C13_Configured("BC1", "BC2", C13_BC1AndBC2, EmptyMap)'
       /\ (C13_Configured("BC1", "BC2", C13_BC1AndBC2, EmptyMap) /\ C13_ParkOf("BC3")) =>
              /\ ret'.err = ErrNoAvailableSpot
              /\ UNCHANGED repo
       /\ (/\ C13_Configured("BC1", "BC2", C13_BC1AndBC2, EmptyMap)
           /\ ret'.op = "Unpark" /\ ret'.spotID = C13_Spot0 /\ ret'.vehicleNumber = "BC1") =>
              /\ ret'.err = ""
              /\ C13_Configured("", "BC2", C13_OnlyBC2, C13_BC1Left)'
       /\ (/\ C13_Configured("", "BC2", C13_OnlyBC2, C13_BC1Left)
           /\ ret'.op = "SearchVehicle" /\ ret'.vehicleNumber = "BC1") =>
              /\ ret'.err = "" /\ ret'.spotID = C13_Spot0 /\ ~ret'.isParked
              /\ UNCHANGED repo
       /\ (C13_Configured("", "BC2", C13_OnlyBC2, C13_BC1Left) /\ C13_ParkOf("BC3")) =>
              /\ ret'.err = "" /\ ret'.spotID = C13_Spot0
              /\ C13_Configured("BC3", "BC2", C13_BC2AndBC3, C13_BC1Left)']_vars

\* the last call of the scenario has just returned
C13_Witness ==
    /\ C13_Configured("BC3", "BC2", C13_BC2AndBC3, C13_BC1Left)
    /\ ret.op = "Park" /\ ret.vehicleNumber = "BC3" /\ ret.vehicleType = Bicycle
    /\ ret.err = "" /\ ret.spotID = C13_Spot0

(***************************************************************************)
(* C14: SearchVehicle(v) fails with the empty-number error for the empty   *)
(* v; otherwise it yields (current[v], true) when v has a current entry,   *)
(* else (history[v], false) when v has a history entry, and else fails     *)
(* with the never-parked error; it leaves the grid and both indexes as     *)
(* they were.                                                              *)
(***************************************************************************)
C14_SearchReadsCurrentThenHistory ==
    [][ret'.op = "SearchVehicle" =>
          /\ UNCHANGED repo
          /\ IF ret'.vehicleNumber = "" THEN ret'.err = ErrEmptyVehicleNumber
             ELSE IF ret'.vehicleNumber \in DOMAIN vehicleMap
             THEN /\ ret'.err = ""
                  /\ ret'.spotID = vehicleMap[ret'.vehicleNumber]
                  /\ ret'.isParked
             ELSE IF ret'.vehicleNumber \in DOMAIN vehicleHistory
             THEN /\ ret'.err = ""
                  /\ ret'.spotID = vehicleHistory[ret'.vehicleNumber]
                  /\ ~ret'.isParked
             ELSE ret'.err = ErrNeverParked]_vars

\* SearchVehicle has just reported the current spot of a vehicle whose history
\* names another spot
C14_Witness ==
    /\ ret.op = "SearchVehicle"
    /\ ret.err = ""
    /\ ret.isParked
    /\ ret.vehicleNumber \in DOMAIN vehicleMap
    /\ ret.vehicleNumber \in DOMAIN vehicleHistory
    /\ vehicleHistory[ret.vehicleNumber] # vehicleMap[ret.vehicleNumber]
    /\ ret.spotID = vehicleMap[ret.vehicleNumber]

(***************************************************************************)
(* C15: every vehicle follows NeverParked -> Parked -> Unparked -> Parked  *)
(* -> ...: a successful Park takes it from NeverParked or Unparked to      *)
(* Parked, a successful Unpark from Parked to Unparked, and nothing else   *)
(* changes its state (a failing call in particular); it never returns to   *)
(* NeverParked, where alone SearchVehicle fails with never-parked; and its *)
(* history entry is the spot of its latest successful Unpark.              *)
(***************************************************************************)
C15_VehicleStateMachine ==
    [][\A v \in AllVehicleNumbers \ {""} :
          /\ Succeeds("Park", v) =>
                /\ VehicleState(v) \in {"NeverParked", "Unparked"}
                /\ VehicleState(v)' = "Parked"
          /\ Succeeds("Unpark", v) =>
                /\ VehicleState(v) = "Parked"
                /\ VehicleState(v)' = "Unparked"
                /\ vehicleHistory'[v] = ret'.spotID
          /\ ~(Succeeds("Park", v) \/ Succeeds("Unpark", v)) =>
                VehicleState(v)' = VehicleState(v)
          /\ ~Succeeds("Unpark", v) =>
                /\ (v \in DOMAIN vehicleHistory') = (v \in DOMAIN vehicleHistory)
                /\ v \in DOMAIN vehicleHistory => vehicleHistory'[v] = vehicleHistory[v]
          /\ VehicleState(v) # "NeverParked" => VehicleState(v)' # "NeverParked"
          /\ (SearchVehicle(v).err = ErrNeverParked) = (VehicleState(v) = "NeverParked")]_vars

(***************************************************************************)
(* C17: InitializeParkingLot(F, R, C, G) with valid dimensions leaves      *)
(* exactly the coordinates 0 <= f < F, 0 <= r < R, 0 <= c < C valid, each  *)
(* with a spot of empty type, inactive, unoccupied and without occupant;   *)
(* while no spot is configured, a Park with a valid vehicle type and a     *)
(* non-empty vehicle number fails with NoAvailableSpot.                    *)
(***************************************************************************)
C17_FreshLotIsUnconfigured ==
    [][/\ \A F \in GridFloorInputs, R \in GridDims, C \in GridDims :
             (InitializeParkingLot(F, R, C, 1) /\ ValidateDimensions(F, R, C, 1) = "") =>
                 /\ DOMAIN spots' = (0..(F - 1)) \X (0..(R - 1)) \X (0..(C - 1))
                 /\ \A f \in (0 - 1)..F, r \in (0 - 1)..R, c \in (0 - 1)..C :
                       isValidLocation(f, r, c)' <=>
                           (0 <= f /\ f < F /\ 0 <= r /\ r < R /\ 0 <= c /\ c < C)
                 /\ Unconfigured'
       /\ (/\ ret'.op = "Park"
           /\ Unconfigured
           /\ ret'.vehicleType \in {Bicycle, Motorcycle, Automobile}
           /\ ret'.vehicleNumber # "") =>
              (ret'.err = ErrNoAvailableSpot /\ UNCHANGED repo)]_vars

\* a Park has just been turned away on a lot of two floors, two rows and two
\* columns of which no spot is configured
C17_Witness ==
    /\ ret.op = "Park"
    /\ ret.err = ErrNoAvailableSpot
    /\ floors = 2 /\ rows = 2 /\ columns = 2
    /\ Cardinality(DOMAIN spots) = 8
    /\ Unconfigured

(***************************************************************************)
(* C18 as stated: no vehicle number is a key of both indexes, current and  *)
(* history, at once.                                                       *)
(***************************************************************************)
C18_InAtMostOneIndex ==
    \A v \in AllVehicleNumbers : ~(v \in DOMAIN vehicleMap /\ v \in DOMAIN vehicleHistory)

(***************************************************************************)
(* C18 amended: a successful Unpark removes the vehicle from current and   *)
(* writes its spot to history; nothing removes a history entry, and a Park *)
(* leaves the history as it is, so that a vehicle that is parked again is  *)
(* a key of both indexes.                                                  *)
(***************************************************************************)
C18_UnparkMovesHistoryStays ==
    [][/\ \A v \in AllVehicleNumbers :
             Succeeds("Unpark", v) =>
                 /\ v \notin DOMAIN vehicleMap'
                 /\ v \in DOMAIN vehicleHistory'
                 /\ vehicleHistory'[v] = ret'.spotID
       /\ DOMAIN vehicleHistory \subseteq DOMAIN vehicleHistory'
       /\ ret'.op = "Park" => vehicleHistory' = vehicleHistory
       /\ \A v \in AllVehicleNumbers :
             (Succeeds("Park", v) /\ v \in DOMAIN vehicleHistory) =>
                 (v \in DOMAIN vehicleMap' /\ v \in DOMAIN vehicleHistory')]_vars

\* a vehicle that was unparked has just been parked again and is in both indexes
C18_Witness ==
    /\ ret.op = "Park"
    /\ ret.err = ""
    /\ ret.vehicleNumber \in DOMAIN vehicleMap
    /\ ret.vehicleNumber \in DOMAIN vehicleHistory

(***************************************************************************)
(* C19: Unpark tests, in this order, the vehicle number for emptiness, the *)
(* vehicle for a current entry (VehicleNotParked), the current entry       *)
(* against the spot identifier (VehicleNotAtSpot), and only then parses    *)
(* the spot identifier.  With a malformed or out-of-bounds spot identifier *)
(* it therefore fails with VehicleNotParked for a vehicle that is not      *)
(* parked and with VehicleNotAtSpot for a parked one, never with           *)
(* InvalidSpotID or InvalidLocation, and changes nothing.                  *)
(***************************************************************************)
C19_UnparkChecksVehicleBeforeSpotID ==
    [][(Entering /\ EnteredCall.op = "Unpark") =>
          /\ EnteredCall.vehicleNumber = "" =>
                ret' = [EnteredCall EXCEPT !.err = ErrEmptyVehicleNumber]
          /\ (/\ EnteredCall.vehicleNumber # ""
              /\ EnteredCall.vehicleNumber \notin DOMAIN vehicleMap) =>
                ret' = [EnteredCall EXCEPT !.err = ErrVehicleNotParked]
          /\ (/\ EnteredCall.vehicleNumber \in DOMAIN vehicleMap
              /\ vehicleMap[EnteredCall.vehicleNumber] # EnteredCall.spotID) =>
                ret' = [EnteredCall EXCEPT !.err = ErrVehicleNotAtSpot]
          /\ (/\ EnteredCall.vehicleNumber # ""
              /\ parseSpotID(EnteredCall.spotID).err # "") =>
                /\ ret'.op = "Unpark"
                /\ ret'.err = IF EnteredCall.vehicleNumber \in DOMAIN vehicleMap
                              THEN ErrVehicleNotAtSpot ELSE ErrVehicleNotParked
                /\ UNCHANGED repo]_vars

\* an Unpark of a parked vehicle with a malformed spot identifier has just
\* failed with VehicleNotAtSpot
C19_Witness ==
    /\ ret.op = "Unpark"
    /\ ret.err = ErrVehicleNotAtSpot
    /\ ret.vehicleNumber \in DOMAIN vehicleMap
    /\ ~SscanfSpotID(ret.spotID).ok

(***************************************************************************)
(* C20: a failing Park fails with InvalidVehicleType, the empty-number     *)
(* error, VehicleAlreadyParked or NoAvailableSpot and leaves the grid and  *)
(* both indexes as they were; the vehicle type is validated first, then    *)
(* the vehicle number, and only then is any state read, so that a Park     *)
(* with an invalid type fails with InvalidVehicleType also for a parked    *)
(* vehicle and for the empty number.                                       *)
(***************************************************************************)
C20_FailedParkChangesNothing ==
    [][/\ (ret'.op = "Park" /\ ret'.err # "") =>
              /\ UNCHANGED repo
              /\ ret'.err \in {ErrInvalidVehicleType, ErrEmptyVehicleNumber,
                                ErrVehicleAlreadyParked, ErrNoAvailableSpot}
       /\ (Entering /\ EnteredCall.op = "Park") =>
              /\ EnteredCall.vehicleType \notin {Bicycle, Motorcycle, Automobile} =>
                    ret' = [EnteredCall EXCEPT !.err = ErrInvalidVehicleType]
              /\ (/\ EnteredCall.vehicleType \in {Bicycle, Motorcycle, Automobile}
                  /\ EnteredCall.vehicleNumber = "") =>
                    ret' = [EnteredCall EXCEPT !.err = ErrEmptyVehicleNumber]]_vars

\* a Park with an unknown vehicle type has just failed with InvalidVehicleType
\* for a vehicle that is parked
C20_Witness ==
    /\ ret.op = "Park"
    /\ ret.err = ErrInvalidVehicleType
    /\ ret.vehicleNumber \in DOMAIN vehicleMap

(***************************************************************************)
(* C16: with finitely many concurrent Park, Unpark, ConfigureSpot,         *)
(* GetAvailableSpots and SearchVehicle calls and a fair scheduler, every   *)
(* call returns and the lock is free again; in particular no caller waits  *)
(* for a lock it holds itself, and whoever takes the lock releases it on   *)
(* every return, error returns included.                                   *)
(***************************************************************************)
C16_EveryCallReturns ==
    <>[](\A p \in Procs : pc[p] = "idle" /\ call[p].holds = "")

\* the Lock() of a ParkVehicle is waiting while the other caller is inside a
\* method under the read lock
C16_Witness ==
    \E p, q \in Procs :
        /\ pc[p] = "Park_Occupy"
        /\ p \in PendingWriters
        /\ q \in Readers
        /\ ~Granted(LockMode(pc[p]))

(***************************************************************************)
(* C21: in every state, whatever the interleaving of Park, Unpark and      *)
(* ConfigureSpot, current[v] = s exactly when spot s is occupied with      *)
(* occupant v: every current entry names a spot of the grid occupied by    *)
(* that vehicle, every occupied spot is the current entry of its occupant, *)
(* and so there are as many occupied spots as current entries.             *)
(***************************************************************************)
C21_CurrentIffOccupiedByVehicle ==
    /\ \A v \in DOMAIN vehicleMap :
          /\ LocationOf(vehicleMap[v]) \in DOMAIN spots
          /\ spots[LocationOf(vehicleMap[v])].IsOccupied
          /\ spots[LocationOf(vehicleMap[v])].VehicleNumber = v
    /\ \A loc \in DOMAIN spots :
          spots[loc].IsOccupied =>
              /\ spots[loc].VehicleNumber \in DOMAIN vehicleMap
              /\ vehicleMap[spots[loc].VehicleNumber] = SprintfSpotID(loc[1], loc[2], loc[3])
    /\ Cardinality({loc \in DOMAIN spots : spots[loc].IsOccupied})
          = Cardinality(DOMAIN vehicleMap)

C23_ReinitializeKeepsIndexesConsistent ==
    [][(ret'.op = "InitializeParkingLot" /\ ret'.err = "") =>
          \A v \in DOMAIN vehicleMap' :
              /\ SscanfSpotID(vehicleMap'[v]).ok
              /\ SscanfSpotID(vehicleMap'[v]).floor \in 0..(floors' - 1)
              /\ SscanfSpotID(vehicleMap'[v]).row \in 0..(rows' - 1)
              /\ SscanfSpotID(vehicleMap'[v]).column \in 0..(columns' - 1)
              /\ \E loc \in DOMAIN spots' :
                    /\ SprintfSpotID(loc[1], loc[2], loc[3]) = vehicleMap'[v]
                    /\ spots'[loc].IsOccupied
                    /\ spots'[loc].VehicleNumber = v]_vars

====
